---- MODULE Spec2Model ----
(***************************************************************************)
(* Model of the map-processor service (services/map-processor/main.py) and *)
(* of the payload its verification client (verify_map_pipeline.py) sends.  *)
(*                                                                         *)
(* One server process handles one request at a time.  A request to         *)
(* /verify-pipeline runs solve_affine and then run_gdal_pipeline, which    *)
(* blocks on three external tools in turn; the handler's position between  *)
(* those blocking calls is the variable pc.                                *)
(*                                                                         *)
(* Python values: None and a missing dict key are the empty tuple <<>>,    *)
(* a present value v is <<v>>.  Strings are TLA+ strings.  A JSON number   *)
(* is [ty |-> "int", v |-> n] or [ty |-> "float", v |-> t], the float of   *)
(* value t/10.                                                             *)
(***************************************************************************)
EXTENDS Integers, Sequences, FiniteSets, TLC

VARIABLES
    pc,             \* position of the server: "idle", "embed", "warp", "tile",
                    \* "done" (the response is ready)
    req,            \* <<>> or <<the request being handled: [route, body]>>
    resp,           \* <<>> while unanswered, else <<[status, body, matrix]>>
    affine_matrix,  \* verify_pipeline's local: <<>> (None) or <<coefficients>>
    solver_calls,   \* calls of solve_affine made for this request
    pipeline_args,  \* arguments of each call of run_gdal_pipeline for this request
    calls,          \* external invocations of this request: [cmd, started, rc]
    raised,         \* <<>> or <<the exception that left run_gdal_pipeline>>
    returned,       \* <<>> or <<the value run_gdal_pipeline returned>>
    log,            \* logger records of this request: [level, msg]
    fs,             \* paths on disk: the raster and what the tools have written
    solve_in,       \* <<>> or <<the arguments of a direct call of solve_affine>>
    solve_out,      \* <<>> or <<what that call returned>>
    runs,           \* concurrent calls of run_gdal_pipeline: [pc, args, calls, reads]
    disk            \* for those calls: path |-> the run that wrote it last

\* the server handling one request at a time
server == <<pc, req, resp, affine_matrix, solver_calls, pipeline_args, calls,
            raised, returned, log, fs>>

\* a direct call of solve_affine
solver == <<solve_in, solve_out>>

\* concurrent calls of run_gdal_pipeline
threads == <<runs, disk>>

vars == <<server, solver, threads>>

(***************************************************************************)
(* Bounds of the model.                                                    *)
(***************************************************************************)
MaxGcps == 3        \* longest GCP list of a request
MaxRetCode == 2     \* exit codes of an external tool are 0..MaxRetCode

None == <<>>
Some(v) == <<v>>

(***************************************************************************)
(* Program constants.                                                      *)
(***************************************************************************)
UPLOAD_BUCKET == "antigravity-maps-upload"
IMAGE_PATH == "/tmp/test_map.jpg"
OUTPUT_DIR == "/tmp/output"

(***************************************************************************)
(* Python's str() of a JSON number: an int prints its digits, a float      *)
(* prints with its decimal point ("18.0", "59.4", "-0.5").                 *)
(***************************************************************************)
JInt(n) == [ty |-> "int", v |-> n]
JFloat(t) == [ty |-> "float", v |-> t]

Abs(n) == IF n < 0 THEN -n ELSE n

str(x) ==
    IF x.ty = "int" THEN ToString(x.v)
    ELSE (IF x.v < 0 THEN "-" ELSE "")
         \o ToString(Abs(x.v) \div 10) \o "." \o ToString(Abs(x.v) % 10)

(***************************************************************************)
(* str.startswith, str.endswith, os.path.join (posixpath) and str.join.    *)
(***************************************************************************)
startswith(s, prefix) ==
    /\ Len(s) >= Len(prefix)
    /\ SubSeq(s, 1, Len(prefix)) = prefix

endswith(s, suffix) ==
    /\ Len(s) >= Len(suffix)
    /\ SubSeq(s, Len(s) - Len(suffix) + 1, Len(s)) = suffix

path_join(a, b) ==
    IF startswith(b, "/") THEN b
    ELSE IF a = "" \/ endswith(a, "/") THEN a \o b
    ELSE a \o "/" \o b

RECURSIVE join(_, _)
join(sep, args) ==
    IF args = <<>> THEN ""
    ELSE IF Len(args) = 1 THEN args[1]
    ELSE args[1] \o sep \o join(sep, Tail(args))

\* str() of a list of strings: "['a', 'b']"
RECURSIVE quoted(_)
quoted(args) ==
    IF args = <<>> THEN <<>>
    ELSE <<"'" \o args[1] \o "'">> \o quoted(Tail(args))

list_repr(args) == "[" \o join(", ", quoted(args)) \o "]"

(***************************************************************************)
(* Exact rational arithmetic for the solver: a rational is <<num, den>>    *)
(* with den > 0, in lowest terms.  numpy computes in floating point; the   *)
(* model keeps the exact value numpy approximates.                         *)
(***************************************************************************)
RECURSIVE GCD(_, _)
GCD(a, b) == IF b = 0 THEN Abs(a) ELSE GCD(b, a % b)

Rat(n, d) ==
    LET g == GCD(Abs(n), Abs(d))
        s == IF d < 0 THEN -1 ELSE 1
    IN  <<(s * n) \div g, (s * d) \div g>>

Dot(u, w) == u[1] * w[1] + u[2] * w[2] + u[3] * w[3]

Cross(u, w) ==
    << u[2] * w[3] - u[3] * w[2],
       u[3] * w[1] - u[1] * w[3],
       u[1] * w[2] - u[2] * w[1] >>

Det3(M) == Dot(M[1], Cross(M[2], M[3]))

ReplaceCol(M, j, b) ==
    [i \in 1..3 |-> [k \in 1..3 |-> IF k = j THEN b[i] ELSE M[i][k]]]

\* the solution of the nonsingular 3x3 system M c = b
Cramer(M, b) == [j \in 1..3 |-> Rat(Det3(ReplaceCol(M, j, b)), Det3(M))]

RECURSIVE SumSeq(_)
SumSeq(s) == IF s = <<>> THEN 0 ELSE Head(s) + SumSeq(Tail(s))

Column(P, j) == [i \in 1..Len(P) |-> P[i][j]]
Products(u, w) == [i \in 1..Len(u) |-> u[i] * w[i]]

\* P^T P and P^T t, the normal equations of the least-squares problem
Gram(P) == [j \in 1..3 |-> [k \in 1..3 |->
                SumSeq(Products(Column(P, j), Column(P, k)))]]
Moment(P, t) == [j \in 1..3 |-> SumSeq(Products(Column(P, j), t))]

IndependentPairs(N) ==
    {ij \in (1..3) \X (1..3) :
        ij[1] < ij[2] /\ Cross(N[ij[1]], N[ij[2]]) # <<0, 0, 0>>}

(***************************************************************************)
(* numpy.linalg.lstsq(P, t, rcond=None)[0] for an n x 3 integer matrix P   *)
(* (n >= 1, every row nonzero): the least-squares solution of P c = t,     *)
(* and the one of minimum norm when P has rank below 3.  lstsq does not    *)
(* raise on a rank-deficient matrix.                                       *)
(*   rank 3: the solution of the normal equations (of P c = t itself when  *)
(*           P is square);                                                 *)
(*   rank 2: the solution of the normal equations orthogonal to the null   *)
(*           space of P;                                                   *)
(*   rank 1: P = m r^T for a row r, and the solution is P^T t / trace(P^T P).*)
(***************************************************************************)
lstsq(P, t) ==
    LET N == Gram(P)
        b == Moment(P, t)
    IN  IF Len(P) = 3 /\ Det3(P) # 0 THEN Cramer(P, t)
        ELSE IF Det3(N) # 0 THEN Cramer(N, b)
        ELSE IF IndependentPairs(N) # {} THEN
            LET ij == CHOOSE p \in IndependentPairs(N) :
                        \A q \in IndependentPairs(N) :
                            p[1] < q[1] \/ (p[1] = q[1] /\ p[2] <= q[2])
                v == Cross(N[ij[1]], N[ij[2]])
            IN  Cramer(<<N[ij[1]], N[ij[2]], v>>, <<b[ij[1]], b[ij[2]], 0>>)
        ELSE
            LET tr == N[1][1] + N[2][2] + N[3][3]
            IN  [j \in 1..3 |-> Rat(b[j], tr)]

(***************************************************************************)
(* solve_affine.  Every exception inside it is caught and turned into      *)
(* None: the ValueError of the length check, the IndexError of a point     *)
(* with fewer than two coordinates, the LinAlgError lstsq raises when P    *)
(* and the target have different numbers of rows.                          *)
(* The matrix and the targets are scaled to integers (by 1 when every      *)
(* number is a JSON int, else by 10) and the solution scaled back.         *)
(***************************************************************************)
Scale(points) ==
    IF \A i \in 1..Len(points) : \A k \in 1..2 : points[i][k].ty = "int"
    THEN 1 ELSE 10

Scaled(x, s) == IF x.ty = "int" THEN x.v * s ELSE (x.v * s) \div 10

Unscale(c, sP, sT) == [j \in 1..3 |-> Rat(c[j][1] * sP, c[j][2] * sT)]

\* a faulty variant: A, B, C fitted to the latitudes and D, E, F to the
\* longitudes (the geo pair read as (lon, lat))
affine_fit_lonlat(pixel_points, gps_points) ==
    LET sP == Scale(pixel_points)
        sT == Scale(gps_points)
        P == [i \in 1..Len(pixel_points) |->
                << Scaled(pixel_points[i][1], sP),
                   Scaled(pixel_points[i][2], sP), sP >>]
        Target_Lon == [i \in 1..Len(gps_points) |-> Scaled(gps_points[i][1], sT)]
        Target_Lat == [i \in 1..Len(gps_points) |-> Scaled(gps_points[i][2], sT)]
        coeffs_lon == Unscale(lstsq(P, Target_Lon), sP, sT)
        coeffs_lat == Unscale(lstsq(P, Target_Lat), sP, sT)
    IN  Some([A |-> coeffs_lon[1], B |-> coeffs_lon[2], C |-> coeffs_lon[3],
              D |-> coeffs_lat[1], E |-> coeffs_lat[2], F |-> coeffs_lat[3]])

\* lines 36-55: P, the two targets, the two least-squares solutions and the
\* dict returned, for lists of equal length of points with two coordinates
affine_fit(pixel_points, gps_points) ==
    LET sP == Scale(pixel_points)
        sT == Scale(gps_points)
        P == [i \in 1..Len(pixel_points) |->
                << Scaled(pixel_points[i][1], sP),
                   Scaled(pixel_points[i][2], sP), sP >>]
        Target_Lon == [i \in 1..Len(gps_points) |-> Scaled(gps_points[i][2], sT)]
        Target_Lat == [i \in 1..Len(gps_points) |-> Scaled(gps_points[i][1], sT)]
        coeffs_lon == Unscale(lstsq(P, Target_Lon), sP, sT)
        coeffs_lat == Unscale(lstsq(P, Target_Lat), sP, sT)
    IN  Some([A |-> coeffs_lon[1], B |-> coeffs_lon[2], C |-> coeffs_lon[3],
              D |-> coeffs_lat[1], E |-> coeffs_lat[2], F |-> coeffs_lat[3]])

\* a faulty variant: lists of different lengths paired up to the shorter one
solve_affine_zipped(pixel_points, gps_points) ==
    IF Len(pixel_points) < 3 \/ Len(gps_points) < 3 THEN None
    ELSE IF \E i \in 1..Len(pixel_points) : Len(pixel_points[i]) < 2 THEN None
    ELSE IF \E i \in 1..Len(gps_points) : Len(gps_points[i]) < 2 THEN None
    ELSE
        LET n == IF Len(pixel_points) < Len(gps_points)
                 THEN Len(pixel_points) ELSE Len(gps_points)
        IN  affine_fit(SubSeq(pixel_points, 1, n), SubSeq(gps_points, 1, n))

\* a faulty variant: the check for at least 3 points left out
solve_affine_unchecked(pixel_points, gps_points) ==
    IF pixel_points = <<>> THEN None
    ELSE IF \E i \in 1..Len(pixel_points) : Len(pixel_points[i]) < 2 THEN None
    ELSE IF \E i \in 1..Len(gps_points) : Len(gps_points[i]) < 2 THEN None
    ELSE IF Len(pixel_points) # Len(gps_points) THEN None
    ELSE
        affine_fit(pixel_points, gps_points)

solve_affine(pixel_points, gps_points) ==
    IF Len(pixel_points) < 3 \/ Len(gps_points) < 3 THEN None
    ELSE IF \E i \in 1..Len(pixel_points) : Len(pixel_points[i]) < 2 THEN None
    ELSE IF \E i \in 1..Len(gps_points) : Len(gps_points[i]) < 2 THEN None
    ELSE IF Len(pixel_points) # Len(gps_points) THEN None
    ELSE
        affine_fit(pixel_points, gps_points)

(***************************************************************************)
(* run_gdal_pipeline: the three command lines.                             *)
(***************************************************************************)
\* gcp['pixel'][1] or gcp['geo'][1] raises IndexError on a shorter list
gcp_indexable(gcp) == Len(gcp.pixel) >= 2 /\ Len(gcp.geo) >= 2

\* a faulty variant: the geographic pair passed as (lat, lon)
RECURSIVE gcp_args_latlon(_)
gcp_args_latlon(gcps) ==
    IF gcps = <<>> THEN <<>>
    ELSE << "-gcp", str(gcps[1].pixel[1]), str(gcps[1].pixel[2]),
            str(gcps[1].geo[1]), str(gcps[1].geo[2]) >> \o gcp_args_latlon(Tail(gcps))

RECURSIVE gcp_args(_)
gcp_args(gcps) ==
    IF gcps = <<>> THEN <<>>
    ELSE << "-gcp", str(gcps[1].pixel[1]), str(gcps[1].pixel[2]),
            str(gcps[1].geo[2]), str(gcps[1].geo[1]) >> \o gcp_args(Tail(gcps))

\* a faulty variant: one temporary VRT for every run
vrt_path_shared(output_dir) == "/tmp/temp.vrt"

vrt_path(output_dir) == path_join(output_dir, "temp.vrt")
warped_tif(output_dir) == path_join(output_dir, "warped.tif")
\* a faulty variant: the tiles written straight into output_dir
tiles_dir_flat(output_dir) == output_dir

tiles_dir(output_dir) == path_join(output_dir, "tiles")

cmd_translate(input_path, output_dir, gcps) ==
    <<"gdal_translate", "-of", "VRT">> \o gcp_args(gcps)
        \o <<input_path, vrt_path(output_dir)>>

\* a faulty variant: gdalwarp reads temp.vrt from the working directory
cmd_warp_cwd(output_dir) ==
    << "gdalwarp", "-t_srs", "EPSG:3857", "-r", "lanczos",
       "-co", "COMPRESS=DEFLATE", "-co", "TILED=YES", "-dstalpha",
       "temp.vrt", warped_tif(output_dir) >>

cmd_warp(output_dir) ==
    << "gdalwarp", "-t_srs", "EPSG:3857", "-r", "lanczos",
       "-co", "COMPRESS=DEFLATE", "-co", "TILED=YES", "-dstalpha",
       vrt_path(output_dir), warped_tif(output_dir) >>

cmd_tiles(output_dir) ==
    << "gdal2tiles.py", "--profile=mercator", "-z", "10-18", "--processes=4",
       warped_tif(output_dir), tiles_dir(output_dir) >>

(***************************************************************************)
(* Exceptions, as the fields the caller can read and their str().          *)
(* subprocess.check_call captures nothing: the stderr and output of a      *)
(* CalledProcessError it raises are None.                                  *)
(***************************************************************************)
\* a faulty variant: every failure reported as exit status 1
CalledProcessError_status1(returncode, cmd) ==
    [ type |-> "CalledProcessError", returncode |-> Some(1),
      cmd |-> Some(cmd), filename |-> None, stderr |-> None,
      text |-> "Command '" \o list_repr(cmd)
                 \o "' returned non-zero exit status 1." ]

CalledProcessError(returncode, cmd) ==
    [ type |-> "CalledProcessError", returncode |-> Some(returncode),
      cmd |-> Some(cmd), filename |-> None, stderr |-> None,
      text |-> "Command '" \o list_repr(cmd)
                 \o "' returned non-zero exit status "
                 \o ToString(returncode) \o "." ]

FileNotFoundError(filename) ==
    [ type |-> "FileNotFoundError", returncode |-> None,
      cmd |-> None, filename |-> Some(filename), stderr |-> None,
      text |-> "[Errno 2] No such file or directory: '" \o filename \o "'" ]

IndexError ==
    [ type |-> "IndexError", returncode |-> None,
      cmd |-> None, filename |-> None, stderr |-> None,
      text |-> "list index out of range" ]

(***************************************************************************)
(* Request bodies.  json is what request.get_json() finds: "invalid" (not  *)
(* JSON), "null", "array" (a non-empty array) or "object", whose keys are  *)
(* the fields that are not None.                                           *)
(***************************************************************************)
Body(json, kind, bucket, name, image_path, output_dir, gcps) ==
    [ json |-> json, kind |-> kind, bucket |-> bucket, name |-> name,
      image_path |-> image_path, output_dir |-> output_dir, gcps |-> gcps ]

NonObjectBodies ==
    {Body(j, None, None, None, None, None, None) : j \in {"invalid", "null", "array"}}

EventBodies ==
    NonObjectBodies \cup
    { Body("object", k, b, n, None, None, None) :
        k \in {None, Some("storage#object"), Some("pubsub#message")},
        b \in {None, Some(UPLOAD_BUCKET), Some("antigravity-maps-tiles")},
        n \in {None, Some("maps/city.jpg"), Some("maps/city.json")} }

GCP(px, geo) == [pixel |-> px, geo |-> geo]

\* the GCPs of verify_map_pipeline.py
HarnessGcps ==
    << GCP(<<JInt(0), JInt(0)>>, <<JFloat(594), JFloat(180)>>),
       GCP(<<JInt(1000), JInt(0)>>, <<JFloat(594), JFloat(182)>>),
       GCP(<<JInt(0), JInt(1000)>>, <<JFloat(592), JFloat(180)>>) >>

\* the same corners on a unit square, and a GCP whose pixel lacks its row
GcpPool ==
    { GCP(<<JInt(0), JInt(0)>>, <<JFloat(594), JFloat(180)>>),
      GCP(<<JInt(1), JInt(0)>>, <<JFloat(594), JFloat(182)>>),
      GCP(<<JInt(0), JInt(1)>>, <<JFloat(592), JFloat(180)>>),
      GCP(<<JInt(1)>>, <<JFloat(592), JFloat(182)>>) }

GcpLists ==
    {HarnessGcps} \cup UNION {[1..n -> GcpPool] : n \in 0..MaxGcps}

PipelineBodies ==
    NonObjectBodies \cup
    { Body("object", None, None, None, i, o, g) :
        i \in {None, Some(""), Some(IMAGE_PATH)},
        o \in {None, Some(""), Some(OUTPUT_DIR), Some("out/")},
        g \in {None} \cup {Some(l) : l \in GcpLists} }

Fields == {"kind", "bucket", "name", "image_path", "output_dir", "gcps"}

\* Python truth value of the parsed body and of data.get(key)
truthy(body) ==
    \/ body.json = "array"
    \/ body.json = "object" /\ \E f \in Fields : body[f] # None

\* a faulty variant: only absent fields rejected (is None), empty ones accepted
missing_arguments_absent_only(input_path, output_dir, gcps) ==
    input_path = None \/ output_dir = None \/ gcps = None

\* not all([input_path, output_dir, gcps]): None, "" and [] are false
missing_arguments(input_path, output_dir, gcps) ==
    \/ input_path = None \/ input_path[1] = ""
    \/ output_dir = None \/ output_dir[1] = ""
    \/ gcps = None \/ gcps[1] = <<>>

(***************************************************************************)
(* The state machine.                                                      *)
(***************************************************************************)
\* no request is being handled
NoRequest ==
    /\ pc = "idle"
    /\ req = None
    /\ resp = None
    /\ affine_matrix = None
    /\ solver_calls = 0
    /\ pipeline_args = <<>>
    /\ calls = <<>>
    /\ raised = None
    /\ returned = None
    /\ log = <<>>

\* solve_affine is not being called directly
NoSolve ==
    /\ solve_in = None
    /\ solve_out = None

\* two calls of run_gdal_pipeline can be in progress at once (the server
\* handles each request in a thread of its own)
Runs == {1, 2}

\* a call of run_gdal_pipeline that has not begun
IdleRun == [pc |-> "idle", args |-> <<>>, calls |-> <<>>,
            raised |-> None, returned |-> None]

\* no such call has begun, and no run has written anything
NoRuns ==
    /\ runs = [r \in Runs |-> IdleRun]
    /\ disk = {}

\* the raster the harness sends is on disk before the first request
Init ==
    /\ NoRequest
    /\ fs = {IMAGE_PATH}
    /\ NoSolve
    /\ NoRuns

Response(status, text, json) == Some([status |-> status, text |-> text, json |-> json])

Info(msg) == [level |-> "info", msg |-> msg]
Error(msg) == [level |-> "error", msg |-> msg]

\* what an external tool can do once started: exit 0 having written its
\* output, or exit non-zero with or without a partial output left behind
Exits ==
    {[rc |-> rc, wrote |-> w] : rc \in 0..MaxRetCode, w \in BOOLEAN} \
        {[rc |-> 0, wrote |-> FALSE]}

\* a request arrives at the idle server
Receive(route, body) ==
    /\ req' = Some([route |-> route, body |-> body])

\* the handler ends without reaching the solver or the pipeline
NothingRun ==
    /\ affine_matrix' = None
    /\ solver_calls' = 0
    /\ pipeline_args' = <<>>
    /\ calls' = <<>>
    /\ raised' = None
    /\ returned' = None
    /\ UNCHANGED fs

(***************************************************************************)
(* run_gdal_pipeline, between its blocking calls.                          *)
(***************************************************************************)
\* a faulty variant: the failure is recorded and logged but never answered
Propagate_unanswered(e, lg) ==
    /\ raised' = Some(e)
    /\ returned' = None
    /\ log' = lg
              \o (IF e.type = "CalledProcessError"
                  THEN <<Error("GDAL subprocess failed: " \o e.text)>> ELSE <<>>)
              \o <<Error("Verification failed: " \o e.text)>>
    /\ resp' = None
    /\ pc' = pc

\* a faulty variant: the answer does not carry the exception's text
Propagate_generic(e, lg) ==
    /\ raised' = Some(e)
    /\ returned' = None
    /\ log' = lg
              \o (IF e.type = "CalledProcessError"
                  THEN <<Error("GDAL subprocess failed: " \o e.text)>> ELSE <<>>)
              \o <<Error("Verification failed: " \o e.text)>>
    /\ resp' = Response(500, "Failed", None)
    /\ pc' = "done"

\* exception e leaves run_gdal_pipeline (logged there and re-raised when it
\* is a CalledProcessError) and is caught by verify_pipeline
Propagate(e, lg) ==
    /\ raised' = Some(e)
    /\ returned' = None
    /\ log' = lg
              \o (IF e.type = "CalledProcessError"
                  THEN <<Error("GDAL subprocess failed: " \o e.text)>> ELSE <<>>)
              \o <<Error("Verification failed: " \o e.text)>>
    /\ resp' = Response(500, "Failed: " \o e.text, None)
    /\ pc' = "done"

\* logger.info and subprocess.check_call(cmd) up to the wait for the tool:
\* the tool starts, or cannot be started and an OSError is raised
check_call(stage, tool, cmd, popen_ok, lg, cs) ==
    LET lg1 == Append(lg, Info("Running " \o tool \o ": " \o join(" ", cmd)))
    IN  IF popen_ok THEN
            /\ calls' = Append(cs, [cmd |-> cmd, started |-> TRUE, rc |-> None])
            /\ pc' = stage
            /\ log' = lg1
            /\ raised' = None
            /\ returned' = None
            /\ resp' = None
        ELSE
            /\ calls' = Append(cs, [cmd |-> cmd, started |-> FALSE, rc |-> None])
            /\ Propagate(FileNotFoundError(cmd[1]), lg1)

\* the running tool exits: its exit code is recorded, its output is on disk
Exited(x) == [calls EXCEPT ![Len(calls)].rc = Some(x.rc)]

\* a faulty variant: the exit code ignored (subprocess.call)
nonzero_exit_never(x) == FALSE

\* check_call raises CalledProcessError when the exit code is not 0
nonzero_exit(x) == x.rc # 0

\* a faulty variant: the output of a failed tool is removed
Written_cleanup(x, output) ==
    IF x.rc = 0 THEN fs \cup {output} ELSE fs \ {output}

\* what is on disk when the tool has exited: nothing is removed
Written(x, output) == IF x.wrote THEN fs \cup {output} ELSE fs

\* a faulty variant: the pipeline refused when the solver found no matrix
run_gdal_pipeline_if_solved(input_path, output_dir, gcps, popen_ok) ==
    /\ UNCHANGED fs
    /\ IF affine_matrix' = None THEN
            /\ pipeline_args' = <<>>
            /\ calls' = <<>>
            /\ Propagate(IndexError, <<>>)
       ELSE
            /\ pipeline_args' = <<[input_path |-> input_path,
                                   output_dir |-> output_dir, gcps |-> gcps]>>
            /\ IF \E i \in 1..Len(gcps) : ~gcp_indexable(gcps[i]) THEN
                    /\ calls' = <<>>
                    /\ Propagate(IndexError, <<>>)
               ELSE check_call("embed", "gdal_translate",
                               cmd_translate(input_path, output_dir, gcps),
                               popen_ok, <<>>, <<>>)

run_gdal_pipeline(input_path, output_dir, gcps, popen_ok) ==
    /\ pipeline_args' = <<[input_path |-> input_path, output_dir |-> output_dir,
                           gcps |-> gcps]>>
    /\ UNCHANGED fs
    /\ IF \E i \in 1..Len(gcps) : ~gcp_indexable(gcps[i]) THEN
            /\ calls' = <<>>
            /\ Propagate(IndexError, <<>>)
       ELSE check_call("embed", "gdal_translate",
                       cmd_translate(input_path, output_dir, gcps),
                       popen_ok, <<>>, <<>>)

(***************************************************************************)
(* index: POST /                                                           *)
(***************************************************************************)
\* a raw upload: an object of the upload bucket that is no metadata file
raw_upload(bucket, name) == bucket = UPLOAD_BUCKET /\ ~endswith(name, ".json")

\* a faulty variant: a raw upload is run through the pipeline
IndexBody_processing(body) ==
    /\ Receive("/", body)
    /\ IF body.json = "object" /\ truthy(body)
          /\ body.kind = Some("storage#object")
          /\ body.bucket # None /\ body.name # None
          /\ raw_upload(body.bucket[1], body.name[1]) THEN
            /\ affine_matrix' = None
            /\ solver_calls' = 0
            /\ run_gdal_pipeline(body.name[1], OUTPUT_DIR, HarnessGcps, TRUE)
       ELSE
            /\ NothingRun
            /\ pc' = "done"
            /\ resp' = Response(200, "OK", None)
            /\ log' = <<Info("Received event")>>

IndexBody(body) ==
    /\ Receive("/", body)
    /\ NothingRun
    /\ pc' = "done"
    /\ IF body.json = "invalid" THEN
            \* request.get_json() aborts the request
            /\ resp' = Response(400, "Bad Request", None)
            /\ log' = <<>>
       ELSE IF ~truthy(body) THEN
            /\ resp' = Response(400, "Bad Request: no JSON", None)
            /\ log' = <<>>
       ELSE IF body.json # "object" THEN
            \* event.get: AttributeError, which no handler catches
            /\ resp' = Response(500, "Internal Server Error", None)
            /\ log' = <<Info("Received event")>>
       ELSE IF body.kind = Some("storage#object")
                /\ (body.bucket = None \/ body.name = None) THEN
            \* event["bucket"], event["name"]: KeyError, which no handler catches
            /\ resp' = Response(500, "Internal Server Error", None)
            /\ log' = <<Info("Received event")>>
       ELSE IF body.kind = Some("storage#object")
                /\ raw_upload(body.bucket[1], body.name[1]) THEN
            \* pass
            /\ resp' = Response(200, "OK", None)
            /\ log' = <<Info("Received event")>>
       ELSE
            /\ resp' = Response(200, "OK", None)
            /\ log' = <<Info("Received event")>>

Index ==
    /\ pc = "idle"
    /\ UNCHANGED <<solver, threads>>
    /\ \E body \in EventBodies : IndexBody(body)

(***************************************************************************)
(* verify_pipeline: POST /verify-pipeline                                  *)
(***************************************************************************)
VerifyPipelineBody(body, popen_ok) ==
    /\ Receive("/verify-pipeline", body)
    /\ IF body.json = "invalid" THEN
            \* request.get_json() aborts the request
            /\ NothingRun
            /\ resp' = Response(400, "Bad Request", None)
            /\ log' = <<>>
            /\ pc' = "done"
       ELSE IF body.json # "object" THEN
            \* data.get: AttributeError outside the try block
            /\ NothingRun
            /\ resp' = Response(500, "Internal Server Error", None)
            /\ log' = <<>>
            /\ pc' = "done"
       ELSE IF missing_arguments(body.image_path, body.output_dir, body.gcps) THEN
            /\ NothingRun
            /\ resp' = Response(400, "Missing arguments", None)
            /\ log' = <<>>
            /\ pc' = "done"
       ELSE
            LET gcps == body.gcps[1]
                pixel_points == [i \in 1..Len(gcps) |-> gcps[i].pixel]
                gps_points == [i \in 1..Len(gcps) |-> gcps[i].geo]
            IN  /\ affine_matrix' = solve_affine(pixel_points, gps_points)
                /\ solver_calls' = 1
                /\ run_gdal_pipeline(body.image_path[1], body.output_dir[1],
                                     gcps, popen_ok)

VerifyPipeline ==
    /\ pc = "idle"
    /\ UNCHANGED <<solver, threads>>
    /\ \E body \in PipelineBodies, popen_ok \in BOOLEAN :
            VerifyPipelineBody(body, popen_ok)

\* the rest of the request's state while the pipeline runs
PipelineFrame ==
    UNCHANGED <<req, affine_matrix, solver_calls, pipeline_args, solver, threads>>

\* a faulty variant: a failed gdal_translate is run again
EmbedExit_retry ==
    /\ pc = "embed"
    /\ PipelineFrame
    /\ \E x \in Exits, popen_ok \in BOOLEAN :
       LET a == pipeline_args[1]
           cs == Exited(x)
       IN  /\ fs' = Written(x, vrt_path(a.output_dir))
           /\ IF nonzero_exit(x) THEN
                   check_call("embed", "gdal_translate", calls[Len(calls)].cmd,
                              popen_ok, log, cs)
              ELSE check_call("warp", "gdalwarp", cmd_warp(a.output_dir),
                              popen_ok, log, cs)

EmbedExit ==
    /\ pc = "embed"
    /\ PipelineFrame
    /\ \E x \in Exits, popen_ok \in BOOLEAN :
       LET a == pipeline_args[1]
           cs == Exited(x)
       IN  /\ fs' = Written(x, vrt_path(a.output_dir))
           /\ IF nonzero_exit(x) THEN
                   /\ calls' = cs
                   /\ Propagate(CalledProcessError(x.rc, calls[Len(calls)].cmd), log)
              ELSE check_call("warp", "gdalwarp", cmd_warp(a.output_dir),
                              popen_ok, log, cs)

WarpExit ==
    /\ pc = "warp"
    /\ PipelineFrame
    /\ \E x \in Exits, popen_ok \in BOOLEAN :
       LET a == pipeline_args[1]
           cs == Exited(x)
       IN  /\ fs' = Written(x, warped_tif(a.output_dir))
           /\ IF nonzero_exit(x) THEN
                   /\ calls' = cs
                   /\ Propagate(CalledProcessError(x.rc, calls[Len(calls)].cmd), log)
              ELSE check_call("tile", "gdal2tiles", cmd_tiles(a.output_dir),
                              popen_ok, log, cs)

TileExit ==
    /\ pc = "tile"
    /\ PipelineFrame
    /\ \E x \in Exits :
       LET a == pipeline_args[1]
           cs == Exited(x)
       IN  /\ fs' = Written(x, tiles_dir(a.output_dir))
           /\ calls' = cs
           /\ IF nonzero_exit(x) THEN
                   Propagate(CalledProcessError(x.rc, calls[Len(calls)].cmd), log)
              ELSE
                   \* return tiles_dir; verify_pipeline answers
                   /\ returned' = Some(tiles_dir(a.output_dir))
                   /\ raised' = None
                   /\ log' = log
                   /\ resp' = Response(200, "",
                                Some([status |-> "success",
                                      affine_matrix |-> affine_matrix]))
                   /\ pc' = "done"

\* the response is sent and the request's context is gone; what the tools
\* wrote stays on disk
Close ==
    /\ pc = "done"
    /\ pc' = "idle"
    /\ req' = None
    /\ resp' = None
    /\ log' = <<>>
    /\ NothingRun
    /\ UNCHANGED <<solver, threads>>

Next ==
    \/ Index
    \/ VerifyPipeline
    \/ EmbedExit
    \/ WarpExit
    \/ TileExit
    \/ Close

Spec == Init /\ [][Next]_vars

(***************************************************************************)
(* solve_affine as a function of its two lists: called directly, with      *)
(* lists whose lengths need not agree (verify_pipeline always passes two   *)
(* lists of one length): up to MaxPoints pixel points, and up to one geo   *)
(* point more.                                                             *)
(***************************************************************************)
MaxPoints == 3

\* pixel points: three corners, and a fourth point on the line of two of them
PixelPool ==
    { <<JInt(0), JInt(0)>>, <<JInt(1), JInt(0)>>,
      <<JInt(0), JInt(1)>>, <<JInt(2), JInt(0)>> }

\* (lat, lon) pairs
GeoPool == { <<JFloat(594), JFloat(180)>>, <<JFloat(592), JFloat(182)>> }

SolveArgs(pixel_points, gps_points) ==
    [pixel_points |-> pixel_points, gps_points |-> gps_points]

\* the two lists verify_map_pipeline.py's GCPs give
HarnessArgs ==
    SolveArgs([i \in 1..Len(HarnessGcps) |-> HarnessGcps[i].pixel],
              [i \in 1..Len(HarnessGcps) |-> HarnessGcps[i].geo])

SolveInputs ==
    {HarnessArgs} \cup
    { SolveArgs(p, g) :
        p \in UNION {[1..n -> PixelPool] : n \in 0..MaxPoints},
        g \in UNION {[1..n -> GeoPool] : n \in 0..(MaxPoints + 1)} }

SolveInit ==
    /\ NoRequest
    /\ fs = {IMAGE_PATH}
    /\ NoRuns
    /\ solve_in \in {Some(a) : a \in SolveInputs}
    /\ solve_out = None

\* the call returns: None, or the dict of the six coefficients
SolveAffine ==
    /\ solve_in # None
    /\ solve_out = None
    /\ solve_out' = Some(solve_affine(solve_in[1].pixel_points,
                                      solve_in[1].gps_points))
    /\ UNCHANGED <<solve_in, server, threads>>

SolveNext == SolveAffine

SpecSolve == SolveInit /\ [][SolveNext]_vars

(***************************************************************************)
(* Properties.                                                             *)
(***************************************************************************)
Tools == <<"gdal_translate", "gdalwarp", "gdal2tiles.py">>

Succeeded(c) == c.started /\ c.rc = Some(0)
StageFailed(c) == ~c.started \/ (c.rc # None /\ c.rc # Some(0))

\* the artifact stage i of the current run writes
Artifact(i) ==
    path_join(pipeline_args[1].output_dir,
              IF i = 1 THEN "temp.vrt" ELSE IF i = 2 THEN "warped.tif" ELSE "tiles")

Last(s) == s[Len(s)]

C2_FailureStops ==
    \A i \in 1..Len(calls) :
        StageFailed(calls[i]) =>
            /\ i = Len(calls)
            /\ pc = "done"
            /\ raised # None
            /\ returned = None

C2_Witness ==
    /\ Len(calls) = 1
    /\ calls[1].cmd[1] = "gdal_translate"
    /\ calls[1].started
    /\ StageFailed(calls[1])
    /\ req[1].body.image_path = Some(IMAGE_PATH)

\* C3 as stated: whatever way a stage fails, the failure raised carries the
\* failing stage, the tool's exit code and the tool's stderr text.
C3_CarriesStageCodeStderr ==
    \A i \in 1..Len(calls) :
        StageFailed(calls[i]) =>
            /\ raised # None
            /\ \/ raised[1].cmd = Some(calls[i].cmd)
               \/ raised[1].filename = Some(calls[i].cmd[1])
            /\ raised[1].returncode # None
            /\ raised[1].stderr # None

\* C3, amended: a non-zero exit raises the CalledProcessError of that
\* invocation, with its command line and exit code and no stderr; a tool that
\* cannot be started raises an OSError that names the tool and has neither
\* exit code nor stderr.
C3_CarriesCommandAndCode ==
    \A i \in 1..Len(calls) :
        StageFailed(calls[i]) =>
            /\ raised # None
            /\ IF calls[i].started
               THEN /\ raised[1].type = "CalledProcessError"
                    /\ raised[1].cmd = Some(calls[i].cmd)
                    /\ raised[1].returncode = calls[i].rc
                    /\ raised[1].stderr = None
               ELSE /\ raised[1].type = "FileNotFoundError"
                    /\ raised[1].filename = Some(calls[i].cmd[1])
                    /\ raised[1].returncode = None
                    /\ raised[1].stderr = None

C3_Witness ==
    /\ Len(calls) = 3
    /\ calls[3].rc = Some(2)
    /\ raised # None

\* C4: run_gdal_pipeline returns exactly when all three stages were invoked
\* and exited with 0; the value is <output_dir>/tiles, the last argument of
\* the tile command; a run never both returns and raises.
C4_ReturnsTilesDir ==
    /\ returned # None <=>
            (Len(calls) = 3 /\ \A i \in 1..3 : Succeeded(calls[i]))
    /\ returned # None =>
            /\ returned = Some(path_join(pipeline_args[1].output_dir, "tiles"))
            /\ returned[1] = Last(calls[3].cmd)
    /\ ~(returned # None /\ raised # None)

C4_Witness == returned # None /\ pipeline_args[1].output_dir = "out/"

\* C5: the embed command is gdal_translate -of VRT, then one -gcp group per
\* GCP in list order with arguments pixel[0], pixel[1], geo[1], geo[0]
\* (column, row, lon, lat), then input_path and <output_dir>/temp.vrt.
C5_EmbedCommand ==
    calls # <<>> =>
        LET cmd == calls[1].cmd
            body == req[1].body
            gcps == body.gcps[1]
            n == Len(gcps)
        IN  /\ Len(cmd) = 3 + 5 * n + 2
            /\ SubSeq(cmd, 1, 3) = <<"gdal_translate", "-of", "VRT">>
            /\ \A i \in 1..n :
                SubSeq(cmd, 5 * i - 1, 5 * i + 3) =
                    << "-gcp", str(gcps[i].pixel[1]), str(gcps[i].pixel[2]),
                       str(gcps[i].geo[2]), str(gcps[i].geo[1]) >>
            /\ cmd[5 * n + 4] = body.image_path[1]
            /\ cmd[5 * n + 5] = path_join(body.output_dir[1], "temp.vrt")
            /\ gcps = HarnessGcps =>
                cmd = << "gdal_translate", "-of", "VRT",
                         "-gcp", "0", "0", "18.0", "59.4",
                         "-gcp", "1000", "0", "18.2", "59.4",
                         "-gcp", "0", "1000", "18.0", "59.2",
                         body.image_path[1],
                         path_join(body.output_dir[1], "temp.vrt") >>

C5_Witness ==
    /\ calls # <<>>
    /\ req[1].body.gcps = Some(HarnessGcps)
    /\ req[1].body.output_dir = Some(OUTPUT_DIR)

\* str.__contains__
Contains(s, sub) ==
    \E i \in 1..(Len(s) - Len(sub) + 1) : SubSeq(s, i, i + Len(sub) - 1) = sub

Handled(route) == pc = "done" /\ req[1].route = route

\* the request body is a JSON object with image_path, output_dir and gcps
\* all present and non-empty
AllFields(body) ==
    /\ body.json = "object"
    /\ body.image_path # None /\ body.image_path # Some("")
    /\ body.output_dir # None /\ body.output_dir # Some("")
    /\ body.gcps # None /\ body.gcps # Some(<<>>)

AllSucceeded == Len(calls) = 3 /\ \A i \in 1..3 : Succeeded(calls[i])

Cause(c) ==
    IF c.started THEN "non-zero exit status " \o ToString(c.rc[1])
    ELSE "No such file or directory"

VerificationFailures ==
    {i \in 1..Len(log) : log[i].level = "error"
                         /\ startswith(log[i].msg, "Verification failed: ")}

\* C7: for a request with all fields, a failed stage is answered 500 with a
\* message that contains the failing tool's name and the text of the failure,
\* the handler having caught (and logged) it once; 200 with status "success"
\* is answered only when all three stages exited with 0.
C7_FailureAnswered ==
    (Handled("/verify-pipeline") /\ AllFields(req[1].body)) =>
        /\ \A i \in 1..Len(calls) :
            StageFailed(calls[i]) =>
                /\ resp[1].status = 500
                /\ Contains(resp[1].text, calls[i].cmd[1])
                /\ Contains(resp[1].text, Cause(calls[i]))
                /\ Cardinality(VerificationFailures) = 1
        /\ resp[1].status = 200 =>
                /\ AllSucceeded
                /\ resp[1].json # None
                /\ resp[1].json[1].status = "success"

C7_Witness ==
    /\ Handled("/verify-pipeline")
    /\ Len(calls) = 2
    /\ calls[2].rc = Some(1)
    /\ resp[1].status = 500

StageCommand(i, body) ==
    IF i = 1 THEN cmd_translate(body.image_path[1], body.output_dir[1], body.gcps[1])
    ELSE IF i = 2 THEN cmd_warp(body.output_dir[1])
    ELSE cmd_tiles(body.output_dir[1])

\* C9: when solve_affine returned None, run_gdal_pipeline is still called
\* with the request's path, directory and unchanged GCP list, and embed is
\* invoked; every command line is the one the request alone determines.
C9_SolverFailureNonFatal ==
    /\ (solver_calls = 1 /\ affine_matrix = None) =>
            LET body == req[1].body
            IN  /\ pipeline_args = << [ input_path |-> body.image_path[1],
                                        output_dir |-> body.output_dir[1],
                                        gcps |-> body.gcps[1] ] >>
                /\ (\A i \in 1..Len(body.gcps[1]) :
                        Len(body.gcps[1][i].pixel) >= 2) => calls # <<>>
    /\ \A i \in 1..Len(calls) : calls[i].cmd = StageCommand(i, req[1].body)

C9_Witness ==
    /\ solver_calls = 1
    /\ affine_matrix = None
    /\ returned # None

\* C10 as stated: POST / answers 400 exactly for a body that is not valid
\* JSON and 200 "OK" for every other body; it never answers 500.
C10_TriggerAlwaysOk ==
    Handled("/") =>
        /\ resp[1].status # 500
        /\ resp[1].status = 400 <=> req[1].body.json = "invalid"
        /\ req[1].body.json # "invalid" =>
                resp[1].status = 200 /\ resp[1].text = "OK"

\* C11: solve_affine returns None, and no coefficients, whenever its lists
\* do not satisfy len(pixel_points) == len(gps_points) >= 3: when either
\* list has fewer than 3 points, and when both have at least 3 but their
\* lengths differ
C11_PreconditionEnforced ==
    solve_out # None =>
        LET p == solve_in[1].pixel_points
            g == solve_in[1].gps_points
        IN  (Len(p) < 3 \/ Len(g) < 3 \/ Len(p) # Len(g)) => solve_out[1] = None

\* a call with 3 pixel points and 4 geo points has returned None
C11_Witness ==
    /\ solve_out = Some(None)
    /\ Len(solve_in[1].pixel_points) = 3
    /\ Len(solve_in[1].gps_points) = 4

\* the pixel points lie on one line (or coincide): every 3 rows of the
\* design matrix [x, y, 1] are dependent, its rank is below 3
Collinear(points) ==
    \A i, j, k \in 1..Len(points) :
        Det3(<< <<points[i][1].v, points[i][2].v, 1>>,
                <<points[j][1].v, points[j][2].v, 1>>,
                <<points[k][1].v, points[k][2].v, 1>> >>) = 0

\* C12: for every list of at least 3 collinear pixel points (with as many
\* geo points), solve_affine reports failure and returns no coefficients
C12_CollinearFails ==
    solve_out # None =>
        LET p == solve_in[1].pixel_points
            g == solve_in[1].gps_points
        IN  (Len(p) >= 3 /\ Len(p) = Len(g) /\ Collinear(p)) => solve_out[1] = None

\* the value of a JSON number, and sums and products of such values
Num(x) == IF x.ty = "int" THEN Rat(x.v, 1) ELSE Rat(x.v, 10)
RatAdd(p, q) == Rat(p[1] * q[2] + q[1] * p[2], p[2] * q[2])
RatMul(p, q) == Rat(p[1] * q[1], p[2] * q[2])

\* a * x + b * y + c
Affine(a, b, c, pixel) ==
    RatAdd(RatAdd(RatMul(a, Num(pixel[1])), RatMul(b, Num(pixel[2]))), c)

\* C13: for 3 GCPs whose pixel points are not collinear the coefficients
\* returned reproduce every GCP: A*x + B*y + C = lon and D*x + E*y + F = lat;
\* for the GCPs of verify_map_pipeline.py they are A = 0.2/1000, B = 0,
\* C = 18.0, D = 0, E = -0.2/1000, F = 59.4
C13_ExactFit ==
    solve_out # None =>
        LET p == solve_in[1].pixel_points
            g == solve_in[1].gps_points
            m == solve_out[1]
        IN  (Len(p) = 3 /\ Len(g) = 3 /\ ~Collinear(p)) =>
                /\ m # None
                /\ \A i \in 1..3 :
                        /\ Affine(m[1].A, m[1].B, m[1].C, p[i]) = Num(g[i][2])
                        /\ Affine(m[1].D, m[1].E, m[1].F, p[i]) = Num(g[i][1])
                /\ solve_in[1] = HarnessArgs =>
                        m[1] = [A |-> Rat(2, 10000), B |-> Rat(0, 1),
                                C |-> Rat(180, 10), D |-> Rat(0, 1),
                                E |-> Rat(-2, 10000), F |-> Rat(594, 10)]

\* the call with the harness' GCPs has returned coefficients
C13_Witness ==
    /\ solve_in = Some(HarnessArgs)
    /\ solve_out # None
    /\ solve_out[1] # None

\* C14: no retries.  In every step of a request: at most three invocations
\* have been made, no tool twice; the record of invocations only grows by
\* one invocation at a time, and only after the one before it exited with 0;
\* once an invocation has failed none follows; and run_gdal_pipeline, once
\* called, is not called again before the request is closed.
C14_NoRetry ==
    [][ /\ Len(calls') <= 3
        /\ \A i, j \in 1..Len(calls') :
                i # j => calls'[i].cmd[1] # calls'[j].cmd[1]
        /\ (calls # <<>> /\ calls' # <<>>) =>
                /\ Len(calls') \in {Len(calls), Len(calls) + 1}
                /\ \A i \in 1..Len(calls) : calls'[i].cmd = calls[i].cmd
                /\ Len(calls') = Len(calls) + 1 => Succeeded(calls'[Len(calls)])
        /\ (\E i \in 1..Len(calls) : StageFailed(calls[i])) =>
                calls' \in {calls, <<>>}
        /\ Len(pipeline_args') <= 1
        /\ pipeline_args # <<>> => pipeline_args' \in {pipeline_args, <<>>}
      ]_vars

\* gdalwarp could not be started after gdal_translate succeeded, and the
\* request ended with these two invocations
C14_Witness ==
    /\ pc = "done"
    /\ Len(calls) = 2
    /\ Succeeded(calls[1])
    /\ ~calls[2].started

\* C15: nothing is deleted or rolled back.  In every step, of every request
\* and on every path, what was on disk stays on disk, the input raster
\* included; the only change is that the tool that exits may have written
\* the output named last on its command line (also when it failed).
C15_NothingDeleted ==
    [][ /\ fs \subseteq fs'
        /\ IMAGE_PATH \in fs'
        /\ fs' # fs =>
                /\ pc \in {"embed", "warp", "tile"}
                /\ fs' \ fs = {Last(Last(calls).cmd)}
      ]_vars

\* gdal2tiles has failed and the request has ended in failure with all three
\* artifacts on disk
C15_Witness ==
    /\ pc = "done"
    /\ raised # None
    /\ Len(calls) = 3
    /\ calls[3].started /\ StageFailed(calls[3])
    /\ {IMAGE_PATH, Artifact(1), Artifact(2), Artifact(3)} \subseteq fs

\* the path a tool reads (the argument before the last) and the path it
\* writes (the last argument)
Source(cmd) == cmd[Len(cmd) - 1]
Target(cmd) == cmd[Len(cmd)]

\* path lies inside directory dir
Inside(path, dir) ==
    /\ startswith(path, IF endswith(dir, "/") THEN dir ELSE dir \o "/")
    /\ Len(path) > Len(dir) + 1

\* C16: artifact chaining.  Embed reads the run's input_path and writes
\* <output_dir>/temp.vrt; warp reads exactly the path embed wrote and writes
\* <output_dir>/warped.tif; tile reads exactly the path warp wrote and writes
\* <output_dir>/tiles; every artifact path lies inside the run's output_dir.
C16_ArtifactChaining ==
    \A i \in 1..Len(calls) :
        LET a == pipeline_args[1]
            cmd == calls[i].cmd
        IN  /\ Target(cmd) = path_join(a.output_dir,
                                <<"temp.vrt", "warped.tif", "tiles">>[i])
            /\ Inside(Target(cmd), a.output_dir)
            /\ Source(cmd) = IF i = 1 THEN a.input_path
                             ELSE Target(calls[i - 1].cmd)

\* all three stages have succeeded in a directory given with its slash
C16_Witness ==
    /\ Len(calls) = 3
    /\ pipeline_args[1].output_dir = "out/"
    /\ calls[3].rc = Some(0)
    /\ Source(calls[3].cmd) = "out/warped.tif"

\* C17: POST / does nothing with an uploaded file.  Whatever the event (a
\* raw upload included), the step that handles it leaves the disk as it was
\* and ends with the solver not called, run_gdal_pipeline not called and no
\* tool invoked; whenever any of these has happened, or the disk changes,
\* the request being handled is a /verify-pipeline request.
C17_TriggerDoesNothing ==
    [][ /\ (req' # None /\ req'[1].route = "/") =>
                /\ fs' = fs
                /\ solver_calls' = 0
                /\ affine_matrix' = None
                /\ pipeline_args' = <<>>
                /\ calls' = <<>>
                /\ pc' = "done"
        /\ (solver_calls' # 0 \/ pipeline_args' # <<>> \/ calls' # <<>> \/ fs' # fs) =>
                /\ req' # None
                /\ req'[1].route = "/verify-pipeline"
      ]_vars

\* the event of a raw upload has been answered 200, with the tiles of an
\* earlier /verify-pipeline request on disk
C17_Witness ==
    /\ Handled("/")
    /\ req[1].body.kind = Some("storage#object")
    /\ req[1].body.bucket = Some(UPLOAD_BUCKET)
    /\ req[1].body.name = Some("maps/city.jpg")
    /\ resp[1].status = 200
    /\ calls = <<>>
    /\ tiles_dir(OUTPUT_DIR) \in fs

(***************************************************************************)
(* Two calls of run_gdal_pipeline in progress at once.  The code takes no  *)
(* lock and keeps no state of its own between them: the calls meet only on *)
(* disk.  A tool reads the file named before last on its command line at   *)
(* some moment between its start and its exit, and writes the file named   *)
(* last; disk records which run wrote each path last.                      *)
(***************************************************************************)
ThreadDirs == {OUTPUT_DIR, "out", "out/", "/tmp/output/tiles"}

Stages == {"embed", "warp", "tile"}

\* the run that wrote path last; 0 when neither run has written it
LastWriter(path) ==
    IF \E d \in disk : d.path = path
    THEN (CHOOSE d \in disk : d.path = path).writer
    ELSE 0

Write(path, r) ==
    {d \in disk : d.path # path} \cup {[path |-> path, writer |-> r]}

\* check_call in a run: the tool starts, or cannot be started and the
\* OSError leaves run_gdal_pipeline
Launched(run, stage, cmd, popen_ok) ==
    IF popen_ok THEN
        [run EXCEPT !.pc = stage,
                    !.calls = Append(@, [cmd |-> cmd, started |-> TRUE,
                                         rc |-> None, read |-> None])]
    ELSE
        [run EXCEPT !.pc = "done",
                    !.calls = Append(@, [cmd |-> cmd, started |-> FALSE,
                                         rc |-> None, read |-> None]),
                    !.raised = Some(FileNotFoundError(cmd[1]))]

\* run r is called (with the harness' raster and GCPs) and starts embed
ThreadStart(r) ==
    /\ runs[r].pc = "idle"
    /\ \E output_dir \in ThreadDirs, popen_ok \in BOOLEAN :
        LET a == [input_path |-> IMAGE_PATH, output_dir |-> output_dir,
                  gcps |-> HarnessGcps]
        IN  runs' = [runs EXCEPT ![r] =
                        Launched([IdleRun EXCEPT !.args = <<a>>], "embed",
                                 cmd_translate(a.input_path, a.output_dir, a.gcps),
                                 popen_ok)]
    /\ UNCHANGED <<disk, server, solver>>

\* the running tool of run r reads its input: whatever is at that path now
ToolReads(r) ==
    /\ runs[r].pc \in Stages
    /\ Last(runs[r].calls).read = None
    /\ runs' = [runs EXCEPT ![r].calls[Len(runs[r].calls)].read =
                    Some(LastWriter(Source(Last(runs[r].calls).cmd)))]
    /\ UNCHANGED <<disk, server, solver>>

\* the running tool of run r exits (with 0 only after it has read its
\* input); the run goes on to its next stage, returns, or raises
ToolExit(r) ==
    /\ runs[r].pc \in Stages
    /\ \E x \in Exits, popen_ok \in BOOLEAN :
        LET run == runs[r]
            n == Len(run.calls)
            output_dir == run.args[1].output_dir
            exited == [run EXCEPT !.calls[n].rc = Some(x.rc)]
        IN  /\ x.rc = 0 => run.calls[n].read # None
            /\ disk' = IF x.wrote THEN Write(Target(run.calls[n].cmd), r) ELSE disk
            /\ runs' = [runs EXCEPT ![r] =
                    IF nonzero_exit(x) THEN
                        [exited EXCEPT !.pc = "done",
                            !.raised = Some(CalledProcessError(x.rc, run.calls[n].cmd))]
                    ELSE IF run.pc = "embed" THEN
                        Launched(exited, "warp", cmd_warp(output_dir), popen_ok)
                    ELSE IF run.pc = "warp" THEN
                        Launched(exited, "tile", cmd_tiles(output_dir), popen_ok)
                    ELSE
                        [exited EXCEPT !.pc = "done",
                                       !.returned = Some(tiles_dir(output_dir))]]
    /\ UNCHANGED <<server, solver>>

ThreadsNext ==
    \/ \E r \in Runs : ThreadStart(r)
    \/ \E r \in Runs : ToolReads(r)
    \/ \E r \in Runs : ToolExit(r)

SpecThreads == Init /\ [][ThreadsNext]_vars

\* the artifact paths of a run in directory dir
ArtifactPaths(dir) == {vrt_path(dir), warped_tif(dir), tiles_dir(dir)}

\* the same path, or one inside the other
Overlaps(p, q) == p = q \/ Inside(p, q) \/ Inside(q, p)

\* two directories are distinct and neither lies inside the other ("out"
\* and "out/" are one directory)
Disjoint(a, b) ==
    LET da == IF endswith(a, "/") THEN a ELSE a \o "/"
        db == IF endswith(b, "/") THEN b ELSE b \o "/"
    IN  ~startswith(da, db) /\ ~startswith(db, da)

\* C18: two concurrent runs whose output directories are distinct and not
\* nested never meet: no command of one run names, as the path it reads or
\* the path it writes, an artifact path of the other run (or a path inside
\* or around one), no tool of one run has read a file the other run wrote,
\* and no path one run's tools write was written by the other.  (For one
\* shared directory the opposite is reachable: C18_Witness.)
C18_DistinctDirsIsolated ==
    \A r, s \in Runs :
        (r # s /\ runs[r].args # <<>> /\ runs[s].args # <<>>
            /\ Disjoint(runs[r].args[1].output_dir, runs[s].args[1].output_dir)) =>
        \A i \in 1..Len(runs[r].calls) :
            LET c == runs[r].calls[i]
            IN  /\ \A q \in ArtifactPaths(runs[s].args[1].output_dir) :
                        ~Overlaps(Source(c.cmd), q) /\ ~Overlaps(Target(c.cmd), q)
                /\ c.read # Some(s)
                /\ LastWriter(Target(c.cmd)) # s

\* two runs share one output directory, and the gdalwarp of one has read
\* the temp.vrt that the gdal_translate of the other wrote last
C18_Witness ==
    \E r, s \in Runs :
        /\ r # s
        /\ runs[r].args # <<>> /\ runs[s].args # <<>>
        /\ runs[r].args[1].output_dir = runs[s].args[1].output_dir
        /\ Len(runs[r].calls) >= 2
        /\ Source(runs[r].calls[2].cmd) = vrt_path(runs[s].args[1].output_dir)
        /\ runs[r].calls[2].read = Some(s)

(***************************************************************************)
(* The server under the assumption that every tool that was started        *)
(* eventually exits: check_call blocks until then, and the handler goes on *)
(* as soon as it returns or raises.                                        *)
(***************************************************************************)
FairSpec ==
    /\ Spec
    /\ WF_vars(EmbedExit)
    /\ WF_vars(WarpExit)
    /\ WF_vars(TileExit)

\* C19: when every tool invocation eventually exits, every request that
\* has arrived is eventually answered, and a run that has begun ends; a
\* request that has ended has one response, and its run (when there was
\* one) has either returned or raised, never both; the response, once
\* there, is not replaced.  And nothing but the exit of its running tool
\* moves a run on (no timeout, no cancellation): every step taken while a
\* tool runs records that tool's exit.
C19_EveryRunEnds ==
    /\ (req # None) ~> (pc = "done" /\ resp # None)
    /\ (pc \in {"embed", "warp", "tile"}) ~> (pc = "done")
    /\ [](pc = "done" =>
            /\ resp # None
            /\ pipeline_args # <<>> => (returned # None) # (raised # None))
    /\ [][ /\ resp # None => resp' \in {resp, None}
           /\ pc \in {"embed", "warp", "tile"} =>
                /\ Len(calls') >= Len(calls)
                /\ calls[Len(calls)].rc = None
                /\ calls'[Len(calls)].rc # None
         ]_vars

\* a request whose three tools all exited has been answered
C19_Witness ==
    /\ pc = "done"
    /\ resp # None
    /\ Len(calls) = 3
    /\ \A i \in 1..3 : calls[i].rc # None

====
